---- MODULE Spec2Model ----
(***************************************************************************)
(* Model of the GrowLights AppDaemon app (src/i1_growlights.py).           *)
(*                                                                         *)
(* The app is configured through self.args, validates the configuration in *)
(* initialize(), and is then driven by the host's scheduler, which calls   *)
(* check_conditions() (run_in / run_every) and update_time_ranges()        *)
(* (run_daily).  The environment (calendar month, wall clock, UV sensor    *)
(* state, switch states) belongs to the host and changes on its own.       *)
(*                                                                         *)
(* Python values are modelled as tagged records: None, str (a sequence of  *)
(* one-character strings, so that strptime and float can be modelled by    *)
(* what they do to the characters) and int.  Entity states of the switches *)
(* are plain strings, with NoState for a get_state that returns None.      *)
(***************************************************************************)
EXTENDS Integers, Sequences, FiniteSets, TLC

\* Largest number of switches in the configured switch list.
MaxSwitches == 2

\* ------------------------------------------------------------------------
\* Python values
\* ------------------------------------------------------------------------
PyNone == [t |-> "none"]
PyStr(s) == [t |-> "str", s |-> s]
PyInt(n) == [t |-> "int", n |-> n]

IsNone(v) == v.t = "none"
IsStr(v) == v.t = "str"

\* Python truthiness of a configuration value (`not x`).
Truthy(v) ==
    CASE v.t = "none" -> FALSE
      [] v.t = "str" -> Len(v.s) > 0
      [] v.t = "int" -> v.n # 0

\* dict.get(key, default)
Get(d, key, default) == IF key \in DOMAIN d THEN d[key] ELSE default

DigitChars == {"0", "1", "2", "3", "4", "5", "6", "7", "8", "9"}

DigitVal(c) ==
    CASE c = "0" -> 0 [] c = "1" -> 1 [] c = "2" -> 2 [] c = "3" -> 3
      [] c = "4" -> 4 [] c = "5" -> 5 [] c = "6" -> 6 [] c = "7" -> 7
      [] c = "8" -> 8 [] c = "9" -> 9

AllDigits(s) == \A i \in 1..Len(s) : s[i] \in DigitChars

RECURSIVE DecVal(_)
DecVal(s) ==
    IF Len(s) = 0 THEN 0
    ELSE 10 * DecVal(SubSeq(s, 1, Len(s) - 1)) + DigitVal(s[Len(s)])

RECURSIVE Pow10(_)
Pow10(k) == IF k = 0 THEN 1 ELSE 10 * Pow10(k - 1)

\* ------------------------------------------------------------------------
\* datetime.datetime.strptime(v, "%H:%M").time()
\* %H matches 2[0-3] | [0-1]\d | \d, %M matches [0-5]\d | \d, and the whole
\* string must be consumed; a value that is not a str raises TypeError.
\* ------------------------------------------------------------------------
MatchesH(s) ==
    /\ Len(s) \in {1, 2}
    /\ AllDigits(s)
    /\ Len(s) = 2 => (s[1] \in {"0", "1"} \/ (s[1] = "2" /\ s[2] \in {"0", "1", "2", "3"}))

\* Faulty variant of MatchesM: any two digits pass as minutes.
MatchesM_AnyTwoDigits(s) ==
    /\ Len(s) \in {1, 2}
    /\ AllDigits(s)

MatchesM(s) ==
    /\ Len(s) \in {1, 2}
    /\ AllDigits(s)
    /\ Len(s) = 2 => s[1] \in {"0", "1", "2", "3", "4", "5"}

strptime_HM(v) ==
    IF ~IsStr(v) THEN [ok |-> FALSE, err |-> "TypeError"]
    ELSE LET s == v.s
             colons == {i \in 1..Len(s) : s[i] = ":"}
         IN  IF colons = {} THEN [ok |-> FALSE, err |-> "ValueError"]
             ELSE LET c == CHOOSE i \in colons : \A j \in colons : i <= j
                      hh == SubSeq(s, 1, c - 1)
                      mm == SubSeq(s, c + 1, Len(s))
                  IN  IF MatchesH(hh) /\ MatchesM(mm)
                      THEN [ok |-> TRUE, time |-> <<DecVal(hh), DecVal(mm), 0>>]
                      ELSE [ok |-> FALSE, err |-> "ValueError"]

\* datetime.time ordering: (hour, minute, second) compared lexicographically.
TimeLE(a, b) ==
    \/ a[1] < b[1]
    \/ a[1] = b[1] /\ a[2] < b[2]
    \/ a[1] = b[1] /\ a[2] = b[2] /\ a[3] <= b[3]

\* ------------------------------------------------------------------------
\* float(v) on a str: [sign] digits [. digits], or "nan"; anything else of
\* the sensor states modelled here raises ValueError.  The value is the
\* exact rational num / den.
\* ------------------------------------------------------------------------
NanChars == <<"n", "a", "n">>

float(v) ==
    IF ~IsStr(v) THEN [ok |-> FALSE, err |-> "TypeError"]
    ELSE LET s == v.s
             neg == Len(s) > 0 /\ s[1] = "-"
             signed == Len(s) > 0 /\ s[1] \in {"-", "+"}
             body == IF signed THEN SubSeq(s, 2, Len(s)) ELSE s
             dots == {i \in 1..Len(body) : body[i] = "."}
         IN  IF body = NanChars THEN [ok |-> TRUE, nan |-> TRUE]
             ELSE IF Cardinality(dots) > 1 THEN [ok |-> FALSE, err |-> "ValueError"]
             ELSE LET d == IF dots = {} THEN Len(body) + 1 ELSE CHOOSE i \in dots : TRUE
                      ip == SubSeq(body, 1, d - 1)
                      fp == SubSeq(body, d + 1, Len(body))
                  IN  IF AllDigits(ip) /\ AllDigits(fp) /\ Len(ip) + Len(fp) > 0
                      THEN [ok |-> TRUE, nan |-> FALSE,
                            num |-> (IF neg THEN -1 ELSE 1)
                                      * (DecVal(ip) * Pow10(Len(fp)) + DecVal(fp)),
                            den |-> Pow10(Len(fp))]
                      ELSE [ok |-> FALSE, err |-> "ValueError"]

\* uv_index >= threshold and uv_index < threshold on a float (NaN compares
\* false both ways).
FloatGE(f, thr) == ~f.nan /\ f.num >= thr * f.den
FloatLT(f, thr) == ~f.nan /\ f.num < thr * f.den

\* ------------------------------------------------------------------------
\* Configuration (self.args) and environment values
\* ------------------------------------------------------------------------
Chars_0900 == <<"0", "9", ":", "0", "0">>
Chars_1500 == <<"1", "5", ":", "0", "0">>
Chars_0600 == <<"0", "6", ":", "0", "0">>
Chars_1800 == <<"1", "8", ":", "0", "0">>
Unavailable == <<"u", "n", "a", "v", "a", "i", "l", "a", "b", "l", "e">>

TimeKeys == {"off_season_start", "off_season_end", "on_season_start", "on_season_end"}

SwitchList(n) == [i \in 1..n |-> <<"switch.grow", i>>]

\* Only the required keys: every optional key takes its default.
BaseArgs(n) ==
    [uv_index_sensor |-> PyStr(<<"u", "v">>), switches |-> SwitchList(n)]

\* Every key given: unpadded hours, other windows, another threshold.
CustomArgs ==
    [uv_index_sensor |-> PyStr(<<"u", "v">>), switches |-> SwitchList(1),
     uv_index_threshold |-> 7,
     off_season_start |-> PyStr(<<"9", ":", "0">>),
     off_season_end |-> PyStr(<<"1", "8", ":", "0", "0">>),
     on_season_start |-> PyStr(<<"6", ":", "0", "0">>),
     on_season_end |-> PyStr(<<"1", "5", ":", "0">>)]

\* Values of a time key that strptime rejects.
BadTimes ==
    <<PyStr(<<"2", "4", ":", "0", "0">>), PyStr(<<"0", "9", ":", "6", "0">>),
      PyStr(<<"0", "9", "0", "0">>), PyStr(<<"9", "a", "m">>), PyStr(<<>>),
      PyStr(<<"0", "9", ":", "0", "0", ":", "0", "0">>), PyInt(540), PyNone>>

\* The configurations the app is loaded with, by name.
ConfigNames ==
    {<<"base", n>> : n \in 0..MaxSwitches}
    \cup {<<"custom">>, <<"no sensor">>, <<"empty sensor">>, <<"no switches">>}
    \cup {<<"bad time", k, b>> : k \in TimeKeys, b \in DOMAIN BadTimes}

ArgsOf(c) ==
    CASE c[1] = "base" -> BaseArgs(c[2])
      [] c[1] = "custom" -> CustomArgs
      [] c[1] = "no sensor" -> [switches |-> SwitchList(MaxSwitches)]
      [] c[1] = "empty sensor" ->
            [uv_index_sensor |-> PyStr(<<>>), switches |-> SwitchList(MaxSwitches)]
      [] c[1] = "no switches" -> [uv_index_sensor |-> PyStr(<<"u", "v">>)]
      [] c[1] = "bad time" -> (c[2] :> BadTimes[c[3]]) @@ BaseArgs(MaxSwitches)

Months == 1..12

\* Wall-clock times (hour, minute, second): the second before the earliest
\* window opens, the instants the windows open, the instants they close and
\* the second after each.
ClockTimes ==
    {<<5, 59, 59>>, <<6, 0, 0>>, <<9, 0, 0>>}
    \cup UNION {{<<h, 0, 0>>, <<h, 0, 1>>} : h \in {15, 18}}

\* States the host reports for the UV sensor entity (None: no such entity).
UVStates ==
    {PyNone, PyStr(Unavailable), PyStr(<<"u", "n", "k", "n", "o", "w", "n">>),
     PyStr(NanChars), PyStr(<<"3">>), PyStr(<<"5">>), PyStr(<<"7", ".", "5">>)}

\* States the host reports for a switch entity (NoState: get_state gives None).
NoState == "None"
SwitchStates == {"on", "off", "unavailable", NoState}

\* ------------------------------------------------------------------------
\* State
\* ------------------------------------------------------------------------
VARIABLES
    args,        \* self.args: the name of the configuration the host passes
    self,        \* the attributes initialize() has set on the app object
    pc,          \* "new" before the host has called initialize(), then "ready"
    registered,  \* callbacks initialize() has registered with the scheduler
    initLog,     \* what initialize() logged
    month,       \* datetime.datetime.now().month
    now,         \* datetime.datetime.now().time() as <<hour, minute, second>>
    uvState,     \* state of the UV sensor entity in the host
    swState,     \* state of each configured switch entity in the host
    last         \* the callback the host ran in the last step, with what it did

vars == <<args, self, pc, registered, initLog, month, now, uvState, swState, last>>

NoRun == [op |-> "none"]

\* ------------------------------------------------------------------------
\* initialize() and _parse_time_configs()
\* ------------------------------------------------------------------------
\* self.log(msg, level=...)
Log(level, msg) == [level |-> level, msg |-> msg]

ParseOrder ==
    <<"off_season_start", "off_season_end", "on_season_start", "on_season_end">>

\* The four strptime calls in order; the first one that raises ends the method
\* (ValueError is logged and re-raised, TypeError passes through), the
\* attributes assigned before it stay set.
_parse_time_configs(s) ==
    LET res == [i \in 1..4 |-> strptime_HM(s[ParseOrder[i]])]
        bad == {i \in 1..4 : ~res[i].ok}
        stop == IF bad = {} THEN 5 ELSE CHOOSE i \in bad : \A j \in bad : i <= j
        done == {ParseOrder[i] : i \in 1..(stop - 1)}
        times == [k \in done |->
                    res[CHOOSE i \in 1..4 : ParseOrder[i] = k].time]
    IN  [times |-> times,
         raised |-> bad # {},
         log |-> IF bad # {} /\ res[stop].err = "ValueError"
                 THEN <<Log("ERROR", "Error parsing time configuration")>> ELSE <<>>]

AllCallbacks ==
    {[via |-> "run_in", cb |-> "check_conditions"],
     [via |-> "run_every", cb |-> "check_conditions"],
     [via |-> "run_daily", cb |-> "update_time_ranges"]}

initialize(a) ==
    LET s == [uv_sensor |-> Get(a, "uv_index_sensor", PyNone),
              uv_threshold |-> Get(a, "uv_index_threshold", 5),
              switches |-> Get(a, "switches", <<>>),
              off_season_start |-> Get(a, "off_season_start", PyStr(Chars_0900)),
              off_season_end |-> Get(a, "off_season_end", PyStr(Chars_1500)),
              on_season_start |-> Get(a, "on_season_start", PyStr(Chars_0600)),
              on_season_end |-> Get(a, "on_season_end", PyStr(Chars_1800))]
    IN  IF ~Truthy(s.uv_sensor)
        THEN [attrs |-> s, times |-> <<>>, registered |-> {},
              log |-> <<Log("ERROR", "Error: UV index sensor not configured")>>]
        ELSE IF Len(s.switches) = 0
        THEN [attrs |-> s, times |-> <<>>, registered |-> {},
              log |-> <<Log("ERROR", "Error: No switches configured")>>]
        ELSE LET p == _parse_time_configs(s)
             IN  IF p.raised
                 THEN [attrs |-> s, times |-> p.times, registered |-> {},
                       log |-> p.log \o <<Log("ERROR", "Error initializing Grow Lights app")>>]
                 ELSE [attrs |-> s, times |-> p.times, registered |-> AllCallbacks,
                       log |-> <<Log("INFO", "Grow Lights app initialized successfully")>>]

\* ------------------------------------------------------------------------
\* is_summer_season(), is_active_time(), get_uv_index()
\* ------------------------------------------------------------------------
\* Faulty variant of is_summer_season: September counted as summer.
is_summer_season_ThroughSeptember(current_month) ==
    6 <= current_month /\ current_month <= 9

is_summer_season(current_month) == 6 <= current_month /\ current_month <= 8

is_active_time(times, current_month, current_time) ==
    IF is_summer_season(current_month)
    THEN /\ TimeLE(times["on_season_start"], current_time)
         /\ TimeLE(current_time, times["on_season_end"])
    ELSE /\ TimeLE(times["off_season_start"], current_time)
         /\ TimeLE(current_time, times["off_season_end"])

\* None (with a warning or an error logged) or the parsed float.
get_uv_index(uv_state) ==
    IF ~IsNone(uv_state) /\ uv_state # PyStr(Unavailable)
    THEN LET f == float(uv_state)
         IN  IF f.ok THEN [none |-> FALSE, val |-> f]
             ELSE [none |-> TRUE, log |-> Log("ERROR", "Error parsing UV index value")]
    ELSE [none |-> TRUE, log |-> Log("WARNING", "UV sensor is unavailable")]

\* ------------------------------------------------------------------------
\* control_lights(): one service call per switch, in list order.  failing is
\* the set of list positions whose call raises; the inner try/except logs it
\* and the loop goes on.
\* ------------------------------------------------------------------------
\* Faulty variant of control_lights: no try/except inside the loop, so the first call
\* that raises ends the loop (the outer handler logs it).
control_lights_StopAtFirstError(turn_on, switches, failing) ==
    LET n == Len(switches)
        stop == IF failing \cap (1..n) = {} THEN n
                ELSE CHOOSE i \in failing \cap (1..n) :
                        \A j \in failing \cap (1..n) : i <= j
    IN  [calls |-> [i \in 1..stop |->
                      [switch |-> switches[i],
                       service |-> IF turn_on THEN "turn_on" ELSE "turn_off",
                       ok |-> i \notin failing]],
         raised |-> FALSE]

control_lights(turn_on, switches, failing) ==
    [calls |-> [i \in 1..Len(switches) |->
                  [switch |-> switches[i],
                   service |-> IF turn_on THEN "turn_on" ELSE "turn_off",
                   ok |-> i \notin failing]],
     raised |-> FALSE]

\* Faulty variant of lights_remain: the first comparison strict (> for >=).
lights_remain_StrictAbove(uv, threshold, current_state) ==
    \/ FloatGE(uv, threshold) /\ uv.num # threshold * uv.den /\ current_state = "off"
    \/ FloatLT(uv, threshold) /\ current_state = "on"

\* The two "remain" branches of check_conditions: nothing to change.
lights_remain(uv, threshold, current_state) ==
    \/ FloatGE(uv, threshold) /\ current_state = "off"
    \/ FloatLT(uv, threshold) /\ current_state = "on"

NoCalls == [calls |-> <<>>, raised |-> FALSE]

check_conditions(s, times, current_month, current_time, uv_state, sw, failing) ==
    LET active == is_active_time(times, current_month, current_time)
        uv == get_uv_index(uv_state)
        current_state == IF Len(s.switches) > 0 THEN sw[1] ELSE NoState
    IN  IF ~active
        THEN [active |-> FALSE, uvRead |-> FALSE, controlled |-> FALSE] @@ NoCalls
        ELSE IF uv.none
        THEN [active |-> TRUE, uvRead |-> TRUE, controlled |-> FALSE] @@ NoCalls
        ELSE IF lights_remain(uv.val, s.uv_threshold, current_state)
        THEN [active |-> TRUE, uvRead |-> TRUE, controlled |-> FALSE] @@ NoCalls
        ELSE [active |-> TRUE, uvRead |-> TRUE, controlled |-> TRUE]
             @@ control_lights(current_state = "on", s.switches, failing)

\* The host's effect of the service calls on the switch entities.
ApplyCalls(sw, calls) ==
    [i \in DOMAIN sw |->
        IF i \in DOMAIN calls /\ calls[i].ok
        THEN (IF calls[i].service = "turn_on" THEN "on" ELSE "off")
        ELSE sw[i]]

update_time_ranges(s, current_month) ==
    IF is_summer_season(current_month)
    THEN [season |-> "summer", start |-> s.on_season_start, end |-> s.on_season_end]
    ELSE [season |-> "winter", start |-> s.off_season_start, end |-> s.off_season_end]

\* ------------------------------------------------------------------------
\* Actions
\* ------------------------------------------------------------------------
Init ==
    /\ args \in ConfigNames
    /\ self = [attrs |-> <<>>, times |-> <<>>]
    /\ pc = "new"
    /\ registered = {}
    /\ initLog = <<>>
    /\ month = 1
    /\ now = <<5, 59, 59>>
    /\ uvState = PyNone
    /\ swState = [i \in 1..Len(Get(ArgsOf(args), "switches", <<>>)) |-> "off"]
    /\ last = NoRun

\* The host loads the app and calls initialize().
Initialize ==
    /\ pc = "new"
    /\ LET r == initialize(ArgsOf(args))
       IN  /\ self' = [attrs |-> r.attrs, times |-> r.times]
           /\ registered' = r.registered
           /\ initLog' = r.log
    /\ pc' = "ready"
    /\ last' = [op |-> "initialize"]
    /\ UNCHANGED <<args, month, now, uvState, swState>>

\* The service calls of a run that may raise: any of those it makes.
FailureSets(run) == SUBSET {i \in DOMAIN run.calls : run.controlled}

\* The scheduler runs check_conditions: the initial run_in call or any of the
\* periodic run_every calls, which run the same handler.
CheckConditions ==
    /\ \E c \in registered : c.cb = "check_conditions"
    /\ \E failing \in FailureSets(check_conditions(self.attrs, self.times, month,
                                                   now, uvState, swState, {})) :
         LET r == check_conditions(self.attrs, self.times, month, now, uvState,
                                   swState, failing)
         IN  /\ swState' = ApplyCalls(swState, r.calls)
             /\ last' = [op |-> "check_conditions", pre |-> swState,
                         failing |-> failing] @@ r
    /\ UNCHANGED <<args, self, pc, registered, initLog, month, now, uvState>>

\* The scheduler runs the daily hook: it only logs the schedule in force.
UpdateTimeRanges ==
    /\ \E c \in registered : c.cb = "update_time_ranges"
    /\ last' = [op |-> "update_time_ranges",
                log |-> update_time_ranges(self.attrs, month)]
    /\ UNCHANGED <<args, self, pc, registered, initLog, month, now, uvState, swState>>

\* The environment is followed only while a callback is scheduled: with none,
\* no code of the app ever reads it.  The clock moves forward to the next
\* sampled time (wrapping at midnight); the calendar moves to the next month.
TimeLT(a, b) == TimeLE(a, b) /\ a # b

NextClock(t) ==
    LET later == {u \in ClockTimes : TimeLT(t, u)}
        pool == IF later = {} THEN ClockTimes ELSE later
    IN  CHOOSE u \in pool : \A w \in pool : TimeLE(u, w)

ClockAdvances ==
    /\ registered # {}
    /\ now' = NextClock(now)
    /\ last' = NoRun
    /\ UNCHANGED <<args, self, pc, registered, initLog, month, uvState, swState>>

MonthPasses ==
    /\ registered # {}
    /\ month' = IF month + 1 \in Months THEN month + 1 ELSE 1
    /\ last' = NoRun
    /\ UNCHANGED <<args, self, pc, registered, initLog, now, uvState, swState>>

SensorReports ==
    /\ registered # {}
    /\ \E u \in UVStates : u # uvState /\ uvState' = u
    /\ last' = NoRun
    /\ UNCHANGED <<args, self, pc, registered, initLog, month, now, swState>>

\* A switch changes outside the app (manual toggle, device drops out).
SwitchChanges ==
    /\ registered # {}
    /\ \E i \in DOMAIN swState, st \in SwitchStates :
         /\ st # swState[i]
         /\ swState' = [swState EXCEPT ![i] = st]
    /\ last' = NoRun
    /\ UNCHANGED <<args, self, pc, registered, initLog, month, now, uvState>>

Next ==
    \/ Initialize
    \/ CheckConditions
    \/ UpdateTimeRanges
    \/ ClockAdvances
    \/ MonthPasses
    \/ SensorReports
    \/ SwitchChanges

Spec == Init /\ [][Next]_vars

\* ------------------------------------------------------------------------
\* Vocabulary of the properties, stated on the configuration and the
\* environment rather than on what the code computed from them.
\* ------------------------------------------------------------------------
Ran == last.op = "check_conditions"

NumSwitches == Len(self.attrs.switches)

Seconds(t) == t[1] * 3600 + t[2] * 60 + t[3]

SummerMonths == {6, 7, 8}

WindowStart ==
    IF month \in SummerMonths THEN self.times["on_season_start"]
    ELSE self.times["off_season_start"]

WindowEnd ==
    IF month \in SummerMonths THEN self.times["on_season_end"]
    ELSE self.times["off_season_end"]

InWindow == Seconds(WindowStart) <= Seconds(now) /\ Seconds(now) <= Seconds(WindowEnd)

\* The sensor gives no usable reading: None, 'unavailable', or not a number.
UVUnusable ==
    \/ IsNone(uvState)
    \/ uvState.s = Unavailable
    \/ ~float(uvState).ok

\* The sensor reading is a number (NaN is a float, but no number).
UVNumber == ~UVUnusable /\ ~float(uvState).nan

UVAtLeastThreshold ==
    LET f == float(uvState) IN f.num >= self.attrs.uv_threshold * f.den

\* The state the lights should be in; "none" for a NaN reading.
Desired ==
    IF ~InWindow THEN "off"
    ELSE IF UVUnusable THEN "on"
    ELSE IF ~UVNumber THEN "none"
    ELSE IF UVAtLeastThreshold THEN "off" ELSE "on"

\* The run called `service` once on every configured switch, and made no
\* other call.
IssuedToAll(service) ==
    /\ Len(last.calls) = NumSwitches
    /\ NumSwitches > 0
    /\ \A i \in 1..NumSwitches :
          /\ last.calls[i].switch = self.attrs.switches[i]
          /\ last.calls[i].service = service

ServiceFor(state) == IF state = "on" THEN "turn_on" ELSE "turn_off"

\* ------------------------------------------------------------------------
\* Inside the window with a numeric reading
\* ------------------------------------------------------------------------

\* C1: a check_conditions run inside the active window with a numeric UV
\* reading drives the lights to what the threshold dictates: with
\* UV >= threshold and the first switch 'on' it issues turn_off to the
\* switches, with UV < threshold and the first switch 'off' it issues turn_on.
C1_ThresholdDrivesLights ==
    (Ran /\ InWindow /\ UVNumber) =>
        /\ (UVAtLeastThreshold /\ last.pre[1] = "on") => IssuedToAll("turn_off")
        /\ (~UVAtLeastThreshold /\ last.pre[1] = "off") => IssuedToAll("turn_on")

\* C2: a check_conditions run outside the active window with the first
\* switch 'on' issues turn_off to the switches, whatever the UV reading.
C2_OffOutsideWindow ==
    (Ran /\ ~InWindow /\ last.pre[1] = "on") => IssuedToAll("turn_off")

\* C3: a check_conditions run inside the active window with an unusable UV
\* reading (None, 'unavailable', unparsable) fails open: with the first
\* switch 'off' it issues turn_on to the switches.
C3_FailOpenOnUnusableUV ==
    (Ran /\ InWindow /\ UVUnusable /\ last.pre[1] = "off") => IssuedToAll("turn_on")

\* C4: a check_conditions run in which the first switch is already in the
\* desired state makes no turn_on or turn_off call on any switch.
C4_NoCallWhenAlreadyDesired ==
    (Ran /\ Desired \in {"on", "off"} /\ last.pre[1] = Desired) => last.calls = <<>>

\* C4 witness: a run inside the window with a numeric reading found the first
\* switch in the desired state and called nothing.
C4_Witness ==
    /\ Ran /\ InWindow /\ UVNumber
    /\ last.pre[1] = Desired
    /\ last.calls = <<>>

\* C5: a check_conditions run in which the first switch reads 'on' or 'off'
\* and differs from the desired state issues exactly one batched command:
\* one call per configured switch, each carrying the desired state.
C5_OneBatchOnMismatch ==
    (Ran /\ last.pre[1] \in {"on", "off"} /\ Desired \in {"on", "off"}
         /\ last.pre[1] # Desired)
        => IssuedToAll(ServiceFor(Desired))

\* C6: a check_conditions run that cannot obtain the state of the first
\* switch (None or 'unavailable') makes no turn_on or turn_off call.
C6_AbortWhenSwitchStateUnknown ==
    (Ran /\ last.pre[1] \in {NoState, "unavailable"}) => last.calls = <<>>

\* ------------------------------------------------------------------------
\* Initialization
\* ------------------------------------------------------------------------
RECURSIVE Decimal(_)
\* The decimal digits of a natural number.
Decimal(n) ==
    LET d == CHOOSE c \in DigitChars : DigitVal(c) = n % 10
    IN  IF n < 10 THEN <<d>> ELSE Append(Decimal(n \div 10), d)

Padded(n) == IF n < 10 THEN <<"0">> \o Decimal(n) ELSE Decimal(n)

\* Every way of writing an hour and a minute of the day as H:M, with or
\* without the leading zero.
HourMinuteStrings ==
    {hh \o <<":">> \o mm :
        hh \in UNION {{Decimal(h), Padded(h)} : h \in 0..23},
        mm \in UNION {{Decimal(m), Padded(m)} : m \in 0..59}}

DefaultTimes ==
    [off_season_start |-> PyStr(Chars_0900), off_season_end |-> PyStr(Chars_1500),
     on_season_start |-> PyStr(Chars_0600), on_season_end |-> PyStr(Chars_1800)]

SensorConfigured ==
    /\ "uv_index_sensor" \in DOMAIN ArgsOf(args)
    /\ IsStr(ArgsOf(args).uv_index_sensor)
    /\ ArgsOf(args).uv_index_sensor.s # <<>>

SwitchesConfigured ==
    /\ "switches" \in DOMAIN ArgsOf(args)
    /\ ArgsOf(args).switches # <<>>

BoundaryTimesParse ==
    \A k \in TimeKeys :
        LET v == IF k \in DOMAIN ArgsOf(args) THEN ArgsOf(args)[k] ELSE DefaultTimes[k]
        IN  IsStr(v) /\ v.s \in HourMinuteStrings

ConfigValid == SensorConfigured /\ SwitchesConfigured /\ BoundaryTimesParse

ErrorReported == \E i \in DOMAIN initLog : initLog[i].level = "ERROR"

\* C7: initialize schedules evaluation only for a valid configuration.  With
\* the sensor id missing, the switch list empty or a boundary time that does
\* not parse, it reports an error and registers no callback, so neither
\* check_conditions nor the daily hook ever runs; with a valid configuration
\* it registers the initial check, the periodic check and the daily hook.
C7_SchedulesOnlyValidConfig ==
    /\ pc = "new" => registered = {}
    /\ (pc = "ready" /\ ConfigValid) => registered = AllCallbacks
    /\ (pc = "ready" /\ ~ConfigValid) =>
          /\ registered = {}
          /\ ErrorReported
    /\ ~ConfigValid => last.op \notin {"check_conditions", "update_time_ranges"}

\* C7 witness: initialize has run on a configuration whose only fault is a
\* boundary time that does not parse; it reported the error and registered
\* nothing.
C7_Witness ==
    /\ pc = "ready"
    /\ SensorConfigured /\ SwitchesConfigured /\ ~BoundaryTimesParse
    /\ registered = {}
    /\ ErrorReported

\* ------------------------------------------------------------------------
\* Switch commands
\* ------------------------------------------------------------------------

\* C8: when control_lights issues a command and the call on some of the
\* switches raises, a call is still attempted on every switch of the list,
\* and no exception leaves control_lights or check_conditions.
C8_BestEffortOverAllSwitches ==
    (Ran /\ last.controlled) =>
        /\ \A i \in 1..NumSwitches :
              \E j \in DOMAIN last.calls :
                  last.calls[j].switch = self.attrs.switches[i]
        /\ ~last.raised

\* C8 witness: a run in which the call on an earlier switch raised and a
\* later switch was still called, successfully.
C8_Witness ==
    /\ Ran /\ last.controlled
    /\ \E i, j \in DOMAIN last.calls :
          /\ i < j
          /\ ~last.calls[i].ok
          /\ last.calls[j].ok

\* ------------------------------------------------------------------------
\* Season and active window
\* ------------------------------------------------------------------------

\* C9: is_active_time is true exactly when start <= t <= end, both ends
\* included, for the on-season window in months 6, 7 and 8 and for the
\* off-season window in every other month.
C9_ActiveExactlyInsideWindow ==
    Ran => (last.active <=> InWindow)

\* C9 witness: a run in a summer month at the very instant the on-season
\* window ends, found active.
C9_Witness ==
    /\ Ran /\ last.active
    /\ month \in SummerMonths
    /\ Seconds(now) = Seconds(self.times["on_season_end"])

\* ------------------------------------------------------------------------
\* Settling
\* ------------------------------------------------------------------------
Uniform(sw) == \A i \in DOMAIN sw : sw[i] = sw[1]

\* C10: with month, time and UV reading held fixed, every switch command
\* succeeding and all switches starting in the same on/off state, one
\* check_conditions run leaves the switches in the desired state, and a run
\* that starts in the desired state issues no turn_on or turn_off call.
\* (last is a check_conditions record only in the state that run produced,
\* so month, now and uvState are the ones the run saw.)
C10_SettlesInOneTick ==
    (Ran /\ Uniform(last.pre) /\ last.pre[1] \in {"on", "off"}
         /\ last.failing = {} /\ Desired \in {"on", "off"})
        => /\ \A i \in DOMAIN swState : swState[i] = Desired
           /\ last.pre[1] = Desired => last.calls = <<>>

====
